---------------------------- MODULE Spec2Model ----------------------------
(***************************************************************************)
(* A model of Janzert/halite_ranking: the game store (utility.load_games,  *)
(* partition_games.main), the evaluator (rating_stats), the Plackett-Luce  *)
(* MM estimator (pl_ranking) and the Weng-Lin updaters (wl_ranking).       *)
(*                                                                         *)
(* Conventions.                                                            *)
(*  - A Python dict is a sequence of <<key, value>> pairs with distinct    *)
(*    keys, in insertion order (dicts iterate in insertion order).         *)
(*  - A gameID is the string the JSON holds, modelled as its sequence of   *)
(*    decimal digits; int() and string comparison are computed from it.    *)
(*  - Each component has its own specification; the variables of the       *)
(*    other components stay at their idle values.                          *)
(***************************************************************************)
EXTENDS Integers, Sequences, FiniteSets, TLC

VARIABLES
  input,      \* load_games: the concatenation of the records of all files
  numParts,   \* partition_games: config.num_parts
  games,      \* the list load_games returned (shuffled in place by main)
  parts,      \* partition_games: the list of parts
  storePc,    \* "start", "loaded" (load_games returned), "partitioned"
  heldout,    \* evaluator: game_results, the held-out games
  ratings,    \* evaluator: the rating table, a dict player -> rating
  evalOut,    \* evaluator: what the call did (a return value or a raise)
  evalPc,     \* "start", "order" (ratings_order_error ran), "rmse"
  rankings,   \* pl_python / pl_numpy: the list of game results
  tolerance,  \* pl_python / pl_numpy: the tolerance argument
  gammas,     \* the current gamma of every player
  prevGammas, \* _gammas
  gdiff,      \* the distance the while loop tests
  iteration,  \* the number of completed iterations
  plPc,       \* "start", "py_while", "py_returned", "py_raised",
              \* "np_while", "np_returned"
  wlGames,    \* wl_bt_ratings / wl_pl_ratings: game_results
  wlPrior,    \* the dict a caller passes as last_ratings
  wlDefault,  \* the dict built once by the default last_ratings=dict()
  wlFrozen,   \* the caller's copy of wlPrior taken before the first call
  wlSystem,   \* the updater of the running call: "bt" or "pl"
  wlPassed,   \* "prior" (last_ratings passed) or "default" (omitted)
  mu,         \* the local dict mu
  sigma,      \* the local dict sigma
  gnum,       \* the number of games the running call has processed
  wlOut,      \* the table the last call returned
  wlCalls,    \* the number of calls made
  wlTied,     \* the games for which the running call printed "Found tied ranks"
  wlPc,       \* "start", "games" (in the loop over games), "returned"
  game_parts, \* cross_validate.main: the folds load_parts returned
  pnum,       \* the number of the fold under test (0 before the loop)
  sysnum,     \* how many systems are done for the fold under test
  train,      \* the training list of the fold under test, after the sort
  error_rates,\* error_rates[system], the list of recorded error rates
  reported,   \* the systems a mean/stdev line was printed for
  cvPc,       \* "folds", "systems", "done", "raised"
  mainGames,  \* pl_ranking.main: game_results
  anchor_player, \* config.anchor_player
  checked,    \* what check_games(game_results) did
  mainPlayers,\* the set players of line 239
  mainRatings,\* ratings after the anchor player is removed
  mainPc      \* "start", "checked", "rating", "done"

storeVars == <<input, numParts, games, parts, storePc>>

evalVars == <<heldout, ratings, evalOut, evalPc>>

plVars == <<rankings, tolerance, gammas, prevGammas, gdiff, iteration, plPc>>

wlVars == <<wlGames, wlPrior, wlDefault, wlFrozen, wlSystem, wlPassed,
            mu, sigma, gnum, wlOut, wlCalls, wlTied, wlPc>>

cvVars == <<game_parts, pnum, sysnum, train, error_rates, reported, cvPc>>

mainVars == <<mainGames, anchor_player, checked, mainPlayers, mainRatings,
              mainPc>>

vars == <<storeVars, evalVars, plVars, wlVars, cvVars, mainVars>>

\* What the actions of one component leave alone.
notStore == <<evalVars, plVars, wlVars, cvVars, mainVars>>

notEval == <<storeVars, plVars, wlVars, cvVars, mainVars>>

notPl == <<storeVars, evalVars, wlVars, cvVars, mainVars>>

notWl == <<storeVars, evalVars, plVars, cvVars, mainVars>>

notCv == <<storeVars, evalVars, plVars, wlVars, mainVars>>

\* pl_ranking.main runs the estimator: its actions change plVars too.
notMain == <<storeVars, evalVars, wlVars, cvVars>>

(***************************************************************************)
(* Generic helpers over sequences.                                         *)
(***************************************************************************)
Range(s) == {s[i] : i \in 1..Len(s)}

Min2(a, b) == IF a < b THEN a ELSE b

Max2(a, b) == IF a > b THEN a ELSE b

\* Python's s[lo:hi] for 0 <= lo, 0 <= hi (0-based, hi exclusive, clamped).
Slice(s, lo, hi) ==
  LET h == Min2(hi, Len(s))
      l == Min2(lo, h)
  IN  [i \in 1..(h - l) |-> s[l + i]]

\* Sequences over S of length 0..n.
SeqsUpTo(S, n) == UNION {[1..k -> S] : k \in 0..n}

\* Sequences over S of length 1..n.
SeqsFrom1(S, n) == UNION {[1..k -> S] : k \in 1..n}

(***************************************************************************)
(* gameID strings.                                                         *)
(***************************************************************************)
\* The gameIDs of the model: "2", "10", "02" and "7" as digit strings.
GameIDs == {<<2>>, <<1, 0>>, <<0, 2>>, <<7>>}

\* int(s) of a digit string.
RECURSIVE IntOf(_)
IntOf(s) ==
  IF Len(s) = 0 THEN 0
  ELSE 10 * IntOf(SubSeq(s, 1, Len(s) - 1)) + s[Len(s)]

\* Python's s < t on strings of digits: lexicographic by character.
RECURSIVE StrLess(_, _)
StrLess(s, t) ==
  IF Len(t) = 0 THEN FALSE
  ELSE IF Len(s) = 0 THEN TRUE
  ELSE IF s[1] # t[1] THEN s[1] < t[1]
  ELSE StrLess(Tail(s), Tail(t))

\* list.sort and sorted() are stable: x goes after every element that is
\* not greater.  less[<<a, b>>] is the comparison of the keys of a and b.
RECURSIVE InsertSorted(_, _, _)
InsertSorted(x, s, less) ==
  IF Len(s) = 0 THEN <<x>>
  ELSE IF less[<<x, s[1]>>] THEN <<x>> \o s
  ELSE <<s[1]>> \o InsertSorted(x, Tail(s), less)

RECURSIVE StableSort(_, _)
StableSort(s, less) ==
  IF Len(s) = 0 THEN <<>>
  ELSE InsertSorted(s[Len(s)], StableSort(SubSeq(s, 1, Len(s) - 1), less), less)

(***************************************************************************)
(* utility.load_games                                                      *)
(***************************************************************************)
MaxInput == 4

MaxParts == 4

\* A game record of the JSON: its gameID and the rest of the record.  The
\* rest is tagged by where the record stood in the input, so that two
\* records with one gameID are different records.
GameRecord(id, i) == [gameID |-> id, users |-> i]

Inputs ==
  {[i \in 1..Len(ids) |-> GameRecord(ids[i], i)] : ids \in SeqsUpTo(GameIDs, MaxInput)}

\* The dedupe loop with the test inverted: a later record replaces the kept one.
RECURSIVE UniquesKeepLast(_)
UniquesKeepLast(gs) ==
  IF Len(gs) = 0 THEN <<>>
  ELSE LET rest == UniquesKeepLast(SubSeq(gs, 1, Len(gs) - 1))
           g    == gs[Len(gs)]
       IN  IF \E k \in 1..Len(rest) : rest[k].gameID = g.gameID
           THEN [k \in 1..Len(rest) |->
                   IF rest[k].gameID = g.gameID THEN g ELSE rest[k]]
           ELSE Append(rest, g)

\* uniques after the loop over the first Len(gs) records: a record is
\* appended unless its gameID is already in gids.
RECURSIVE Uniques(_)
Uniques(gs) ==
  IF Len(gs) = 0 THEN <<>>
  ELSE LET rest == Uniques(SubSeq(gs, 1, Len(gs) - 1))
           g    == gs[Len(gs)]
           gids == {rest[k].gameID : k \in 1..Len(rest)}
       IN  IF g.gameID \notin gids THEN Append(rest, g) ELSE rest

\* key=lambda x: int(x['gameID'])
IntKeyLess(a, b) == IntOf(a.gameID) < IntOf(b.gameID)

\* key=lambda x: x['gameID']
StrKeyLess(a, b) == StrLess(a.gameID, b.gameID)

load_games(gs) ==
  LET u == Uniques(gs)
  IN  StableSort(u, [p \in Range(u) \X Range(u) |-> IntKeyLess(p[1], p[2])])

(***************************************************************************)
(* partition_games.main                                                    *)
(***************************************************************************)
\* random.shuffle(games): any ordering of the same records.
Shuffles(s) ==
  {t \in [1..Len(s) -> Range(s)] : Range(t) = Range(s)}

\* end_game without the extra game of the first len % num_parts parts.
RECURSIVE EndGameNoRemainder(_, _, _)
EndGameNoRemainder(i, n, k) ==
  IF i < 0 THEN 0
  ELSE EndGameNoRemainder(i - 1, n, k) + (n \div k)

\* end_game after iteration i (0-based) of the loop, for n games, k parts.
RECURSIVE EndGame(_, _, _)
EndGame(i, n, k) ==
  IF i < 0 THEN 0
  ELSE EndGame(i - 1, n, k) + (n \div k) + (IF i < n % k THEN 1 ELSE 0)

\* parts after the slicing loop and the per-part sort.
Partition(gs, k) ==
  [i \in 1..k |->
     LET p == Slice(gs, EndGame(i - 2, Len(gs), k), EndGame(i - 1, Len(gs), k))
     IN  StableSort(p, [q \in Range(p) \X Range(p) |-> StrKeyLess(q[1], q[2])])]

IdleStore ==
  /\ input = <<>>
  /\ numParts = 1
  /\ games = <<>>
  /\ parts = <<>>
  /\ storePc = "idle"

IdleEval ==
  /\ heldout = <<>>
  /\ ratings = <<>>
  /\ evalOut = [kind |-> "none"]
  /\ evalPc = "idle"

IdlePl ==
  /\ rankings = <<>>
  /\ tolerance = 0
  /\ gammas = <<>>
  /\ prevGammas = <<>>
  /\ gdiff = 0
  /\ iteration = 0
  /\ plPc = "idle"

IdleWl ==
  /\ wlGames = <<>>
  /\ wlPrior = <<>>
  /\ wlDefault = <<>>
  /\ wlFrozen = <<>>
  /\ wlSystem = "none"
  /\ wlPassed = "none"
  /\ mu = <<>>
  /\ sigma = <<>>
  /\ gnum = 0
  /\ wlOut = <<>>
  /\ wlCalls = 0
  /\ wlTied = {}
  /\ wlPc = "idle"

IdleCv ==
  /\ game_parts = <<>>
  /\ pnum = 0
  /\ sysnum = 0
  /\ train = <<>>
  /\ error_rates = <<>>
  /\ reported = <<>>
  /\ cvPc = "idle"

IdleMain ==
  /\ mainGames = <<>>
  /\ anchor_player = FALSE
  /\ checked = [kind |-> "none"]
  /\ mainPlayers = {}
  /\ mainRatings = <<>>
  /\ mainPc = "idle"

InitStore ==
  /\ IdleEval
  /\ IdlePl
  /\ IdleWl
  /\ IdleCv
  /\ IdleMain
  /\ input \in Inputs
  /\ numParts \in 1..MaxParts
  /\ games = <<>>
  /\ parts = <<>>
  /\ storePc = "start"

\* A caller runs utility.load_games on the files.
LoadGames ==
  /\ storePc = "start"
  /\ games' = load_games(input)
  /\ storePc' = "loaded"
  /\ UNCHANGED <<input, numParts, parts>>
  /\ UNCHANGED notStore

\* partition_games.main: load, shuffle, slice, sort each part.
PartitionGames ==
  /\ storePc = "start"
  /\ \E sh \in Shuffles(load_games(input)) :
        /\ games' = sh
        /\ parts' = Partition(sh, numParts)
  /\ storePc' = "partitioned"
  /\ UNCHANGED <<input, numParts>>
  /\ UNCHANGED notStore

NextStore == LoadGames \/ PartitionGames

SpecStore == InitStore /\ [][NextStore]_vars

(***************************************************************************)
(* Game results: the dict player -> rank built from a game record.         *)
(***************************************************************************)
Players == {"A", "B", "C"}

Ranks == {1, 2, 3}

\* dict.keys(), `k in d`, d[k] and len(d) of a dict held as a sequence of pairs.
Keys(d) == {d[i][1] : i \in 1..Len(d)}

Get(d, k) == d[CHOOSE i \in 1..Len(d) : d[i][1] = k][2]

\* The dicts player -> rank with n players, in every insertion order.
GameDictsOfSize(n) ==
  {d \in [1..n -> Players \X Ranks] : Cardinality({d[i][1] : i \in 1..n}) = n}

\* Records used in estimation or evaluation hold two or more players.
GameDicts == UNION {GameDictsOfSize(n) : n \in 2..Cardinality(Players)}

\* The non-empty lists of game results that hold n (player, rank) entries or
\* fewer in all.
RECURSIVE GameLists(_)
GameLists(n) ==
  IF n < 2 THEN {}
  ELSE {<<g>> : g \in {d \in GameDicts : Len(d) <= n}}
       \cup UNION {{<<g>> \o rest : rest \in GameLists(n - Len(g))} :
                     g \in {d \in GameDicts : Len(d) <= n - 2}}

(***************************************************************************)
(* Exact fractions <<n, d>>, d > 0, in lowest terms: Python's float        *)
(* results are modelled as the rationals they approximate.                 *)
(***************************************************************************)
RECURSIVE Gcd(_, _)
Gcd(a, b) == IF b = 0 THEN a ELSE Gcd(b, a % b)

Abs(a) == IF a < 0 THEN -a ELSE a

Frac(n, d) ==
  LET g == Gcd(Abs(n), Abs(d))
      s == IF d < 0 THEN -1 ELSE 1
  IN  <<(s * n) \div g, (s * d) \div g>>

FracAdd(x, y) == Frac(x[1] * y[2] + y[1] * x[2], x[2] * y[2])

FracSub(x, y) == Frac(x[1] * y[2] - y[1] * x[2], x[2] * y[2])

FracMul(x, y) == Frac(x[1] * y[1], x[2] * y[2])

FracLess(x, y) == x[1] * y[2] < y[1] * x[2]

RECURSIVE FracSum(_)
FracSum(s) == IF Len(s) = 0 THEN <<0, 1>> ELSE FracAdd(s[1], FracSum(Tail(s)))

\* Any enumeration of a finite set as a sequence.
RECURSIVE SetToSeq(_)
SetToSeq(S) ==
  IF S = {} THEN <<>>
  ELSE LET x == CHOOSE y \in S : TRUE IN <<x>> \o SetToSeq(S \ {x})

(***************************************************************************)
(* rating_stats: ratings_rmse and ratings_order_error                      *)
(***************************************************************************)
\* The held-out games hold at most this many (player, rank) entries in all.
MaxEvalEntries == 3

RatingValues == {1, 2, 3}

\* A rating table read only by `in` and []: a function on the rated players.
RatingTables == UNION {[S -> RatingValues] : S \in SUBSET Players}

\* subjects=None
NoSubjects == {}

pl_winp(a, b) == Frac(a, a + b)

\* A trueskill / Weng-Lin rating is a record [mu, sigma].
ts_order(a, b) == (a.mu - (a.sigma * 3)) > (b.mu - (b.sigma * 3))

pl_order(a, b) == a > b

\* Calling the function object passed as rank_order / winp_func, held as its name.
CallOrder(rank_order, a, b) ==
  IF rank_order = "ts_order" THEN ts_order(a, b) ELSE pl_order(a, b)

CallWinp(winp_func, a, b) == pl_winp(a, b)

\* sorted(game.items(), key=lambda x: x[1])
GameRanks(game) ==
  StableSort(game, [p \in Range(game) \X Range(game) |-> p[1][2] < p[2][2]])

\* The (pix, opp index) pairs of the two nested loops over gameranks.
LoopPairs(game) ==
  {p \in (1..Len(game)) \X (1..Len(game)) : p[1] < p[2]}

\* if subjects and player not in subjects and opp not in subjects: continue
Skipped(player, opp, subjects) ==
  subjects # {} /\ player \notin subjects /\ opp \notin subjects

\* if player not in ratings or opp not in ratings: num_missed += 1; continue
Missed(player, opp, rt) == player \notin DOMAIN rt \/ opp \notin DOMAIN rt

\* The test with the comparison against the finish order inverted.
PairWrongInverted(better, worse, prank, orank) ==
  (better = worse) \/ (better = (prank < orank))

\* if (better == worse) or (better != (prank < orank)): num_wrong += 1
PairWrong(better, worse, prank, orank) ==
  (better = worse) \/ (better # (prank < orank))

\* gameranks of every game of game_results.
AllGameRanks(game_results) ==
  [g \in 1..Len(game_results) |-> GameRanks(game_results[g])]

\* The (game, pix, opp index) triples the two nested loops visit and do not skip.
LoopTriples(grs, subjects) ==
  {t \in UNION {{g} \X LoopPairs(grs[g]) : g \in 1..Len(grs)} :
     ~Skipped(grs[t[1]][t[2][1]][1], grs[t[1]][t[2][2]][1], subjects)}

\* The result of true division: ZeroDivisionError when the divisor is 0.
TrueDiv(n, d) ==
  IF d = 0 THEN [kind |-> "raise", exc |-> "ZeroDivisionError"]
  ELSE [kind |-> "return", value |-> Frac(n, d)]

ratings_order_error(game_results, rt, rank_order, subjects) ==
  LET grs == AllGameRanks(game_results)
      visited == LoopTriples(grs, subjects)
      missed == {t \in visited :
                   Missed(grs[t[1]][t[2][1]][1], grs[t[1]][t[2][2]][1], rt)}
      preds == visited \ missed
      wrong == {t \in preds :
                  LET player == grs[t[1]][t[2][1]][1]
                      prank  == grs[t[1]][t[2][1]][2]
                      opp    == grs[t[1]][t[2][2]][1]
                      orank  == grs[t[1]][t[2][2]][2]
                  IN  PairWrong(CallOrder(rank_order, rt[player], rt[opp]),
                                CallOrder(rank_order, rt[opp], rt[player]),
                                prank, orank)}
      num_wrong == Cardinality(wrong)
      num_missed == Cardinality(missed)
      num_predictions == Cardinality(preds)
      quotient == TrueDiv(num_wrong, num_predictions)
  IN  [kind |-> quotient.kind,
       value |-> IF quotient.kind = "return" THEN quotient.value ELSE <<0, 1>>,
       num_wrong |-> num_wrong,
       num_missed |-> num_missed,
       num_predictions |-> num_predictions]

\* (winp - winr)**2 of one predicted pair.
SquaredError(winp, prank, orank) ==
  LET winr == IF prank < orank THEN <<1, 1>> ELSE <<0, 1>>
      e == FracSub(winp, winr)
  IN  FracMul(e, e)

\* The return value math.sqrt(sum_errors / num_predictions) is held as its
\* square, the mean squared error.
ratings_rmse(game_results, rt, winp_func, subjects) ==
  LET grs == AllGameRanks(game_results)
      visited == LoopTriples(grs, subjects)
      missed == {t \in visited :
                   Missed(grs[t[1]][t[2][1]][1], grs[t[1]][t[2][2]][1], rt)}
      preds == SetToSeq(visited \ missed)
      errs == [k \in 1..Len(preds) |->
                 LET t == preds[k]
                     player == grs[t[1]][t[2][1]][1]
                     prank  == grs[t[1]][t[2][1]][2]
                     opp    == grs[t[1]][t[2][2]][1]
                     orank  == grs[t[1]][t[2][2]][2]
                 IN  SquaredError(CallWinp(winp_func, rt[player], rt[opp]), prank, orank)]
      sum_errors == FracSum(errs)
      num_missed == Cardinality(missed)
      num_predictions == Len(preds)
      quotient == TrueDiv(1, num_predictions)
  IN  [kind |-> quotient.kind,
       value |-> IF quotient.kind = "return"
                 THEN FracMul(sum_errors, quotient.value) ELSE <<0, 1>>,
       num_wrong |-> 0,
       num_missed |-> num_missed,
       num_predictions |-> num_predictions]

(***************************************************************************)
(* cross_validate.check_predictions, the per-fold score of the             *)
(* cross-validator.                                                        *)
(***************************************************************************)
\* rank_order(ratings, a, b)
rank_order(rt, a, b) == rt[a] > rt[b]

\* ms_rank_order(ratings, a, b)
ms_rank_order(rt, a, b) ==
  (rt[a].mu - (rt[a].sigma * 3)) > (rt[b].mu - (rt[b].sigma * 3))

\* Calling the function object passed as order, held as its name.
CallCvOrder(order, rt, a, b) ==
  IF order = "rank_order" THEN rank_order(rt, a, b) ELSE ms_rank_order(rt, a, b)

\* The (game, pix, opp index) triples the loops of check_predictions visit.
CvTriples(grs) ==
  UNION {{g} \X LoopPairs(grs[g]) : g \in 1..Len(grs)}

\* What check_predictions raises for a table with the given keys: ratings[a]
\* of a player without a rating is a KeyError, and the final division is a
\* ZeroDivisionError when there was no pair.
PredictionsRaise(test_results, keys) ==
  IF \E g \in 1..Len(test_results) :
        Len(test_results[g]) >= 2 /\ ~(Keys(test_results[g]) \subseteq keys)
  THEN "KeyError"
  ELSE IF \A g \in 1..Len(test_results) : Len(test_results[g]) < 2
  THEN "ZeroDivisionError"
  ELSE "none"

check_predictions(test_results, rt, order) ==
  IF PredictionsRaise(test_results, DOMAIN rt) # "none"
  THEN [kind |-> "raise", exc |-> PredictionsRaise(test_results, DOMAIN rt)]
  ELSE LET grs == AllGameRanks(test_results)
           preds == CvTriples(grs)
           wrong == {t \in preds :
                       LET player == grs[t[1]][t[2][1]][1]
                           prank  == grs[t[1]][t[2][1]][2]
                           opp    == grs[t[1]][t[2][2]][1]
                           orank  == grs[t[1]][t[2][2]][2]
                       IN  PairWrong(CallCvOrder(order, rt, player, opp),
                                     CallCvOrder(order, rt, opp, player),
                                     prank, orank)}
       IN  [kind |-> "return",
            value |-> Frac(Cardinality(wrong), Cardinality(preds)),
            num_wrong |-> Cardinality(wrong),
            num_predictions |-> Cardinality(preds)]

InitEval ==
  /\ IdleStore
  /\ IdlePl
  /\ IdleWl
  /\ IdleCv
  /\ IdleMain
  /\ heldout \in GameLists(MaxEvalEntries)
  /\ ratings \in RatingTables
  /\ evalOut = [kind |-> "none"]
  /\ evalPc = "start"

\* A caller (rating_stats.main, best_scores, random_order.main) runs
\* ratings_order_error on the held-out games.
OrderError ==
  /\ evalPc = "start"
  /\ evalOut' = ratings_order_error(heldout, ratings, "pl_order", NoSubjects)
  /\ evalPc' = "order"
  /\ UNCHANGED <<heldout, ratings>>
  /\ UNCHANGED notEval

\* A caller runs ratings_rmse on the held-out games.
Rmse ==
  /\ evalPc = "start"
  /\ evalOut' = ratings_rmse(heldout, ratings, "pl_winp", NoSubjects)
  /\ evalPc' = "rmse"
  /\ UNCHANGED <<heldout, ratings>>
  /\ UNCHANGED notEval

\* cross_validate.main runs check_predictions on the test fold.
CheckPredictions ==
  /\ evalPc = "start"
  /\ evalOut' = check_predictions(heldout, ratings, "rank_order")
  /\ evalPc' = "check"
  /\ UNCHANGED <<heldout, ratings>>
  /\ UNCHANGED notEval

NextEval == OrderError \/ Rmse \/ CheckPredictions

SpecEval == InitEval /\ [][NextEval]_vars

(***************************************************************************)
(* C1: load_games returns each distinct gameID of the input exactly once,  *)
(* the record kept for a gameID is the first record of the input with that *)
(* gameID, and the list is in ascending order of int(gameID).              *)
(***************************************************************************)
FirstIndexOf(id) ==
  CHOOSE i \in 1..Len(input) :
    /\ input[i].gameID = id
    /\ \A j \in 1..(i - 1) : input[j].gameID # id

C1_LoadGamesDedupSorted ==
  storePc = "loaded" =>
    /\ \A id \in {input[i].gameID : i \in 1..Len(input)} :
          /\ Cardinality({k \in 1..Len(games) : games[k].gameID = id}) = 1
          /\ \A k \in 1..Len(games) :
                games[k].gameID = id => games[k] = input[FirstIndexOf(id)]
    /\ \A k \in 1..Len(games) : \E i \in 1..Len(input) : games[k] = input[i]
    /\ \A k \in 1..(Len(games) - 1) :
          IntOf(games[k].gameID) <= IntOf(games[k + 1].gameID)

\* A loaded input with a duplicated gameID whose first records are out of order.
C1_Witness ==
  /\ storePc = "loaded"
  /\ Len(input) = 4
  /\ input[1].gameID = <<1, 0>>
  /\ input[2].gameID = <<2>>
  /\ input[3].gameID = <<1, 0>>
  /\ Len(games) = 3

(***************************************************************************)
(* C2: the num_parts parts are pairwise disjoint, every loaded game is in  *)
(* exactly one part, and the sizes of two parts differ by at most one.     *)
(***************************************************************************)
C2_PartitionBalanced ==
  storePc = "partitioned" =>
    /\ Len(parts) = numParts
    /\ \A i, j \in 1..Len(parts) :
          i # j => Range(parts[i]) \cap Range(parts[j]) = {}
    /\ UNION {Range(parts[i]) : i \in 1..Len(parts)} = Range(load_games(input))
    /\ \A i \in 1..Len(parts) : Cardinality(Range(parts[i])) = Len(parts[i])
    /\ \A i, j \in 1..Len(parts) : Len(parts[i]) - Len(parts[j]) <= 1

\* Four games in three parts: the sizes are 2, 1, 1.
C2_Witness ==
  /\ storePc = "partitioned"
  /\ numParts = 3
  /\ Len(games) = 4
  /\ Len(parts[1]) = 2
  /\ Len(parts[3]) = 1

(***************************************************************************)
(* The evaluator's metric stated on the games themselves: the unordered    *)
(* pairs of co-participants, with no reference to the order of a record.   *)
(***************************************************************************)
\* The (game, {p, q}) pairs of co-participants.
CoPairs ==
  UNION {{<<g, pq>> : pq \in {x \in SUBSET Keys(heldout[g]) : Cardinality(x) = 2}} :
           g \in 1..Len(heldout)}

\* The pairs with both participants in the rating table.
ScoredPairs == {c \in CoPairs : c[2] \subseteq DOMAIN ratings}

\* The predicate gives the same answer in both directions.
Indecisive(p, q) == pl_order(ratings[p], ratings[q]) = pl_order(ratings[q], ratings[p])

\* The predicate's answer for (p, q) is not the finish order of p and q.
Disagrees(g, p, q) ==
  pl_order(ratings[p], ratings[q]) # (Get(heldout[g], p) < Get(heldout[g], q))

\* A scored pair is wrong when the predicate is indecisive or its answer, in
\* either direction, is not the finish order.
WrongPairs ==
  {c \in ScoredPairs :
     \E p, q \in c[2] :
        p # q /\ (Indecisive(p, q) \/ Disagrees(c[1], p, q) \/ Disagrees(c[1], q, p))}

\* Two scored co-participants of one game finished with the same rank.
ScoredTie == \E c \in ScoredPairs : \E p, q \in c[2] :
                p # q /\ Get(heldout[c[1]], p) = Get(heldout[c[1]], q)

(***************************************************************************)
(* C3: ratings_order_error counts a scored pair wrong exactly when the     *)
(* order predicate is indecisive or its answer disagrees with the finish   *)
(* order; pairs with an unrated participant are counted as missed and not  *)
(* as predictions; the value returned is wrong pairs / scored pairs.       *)
(***************************************************************************)
C3_OrderErrorCountsWrongPairs ==
  evalPc = "order" =>
    /\ evalOut.num_predictions = Cardinality(ScoredPairs)
    /\ evalOut.num_missed = Cardinality(CoPairs \ ScoredPairs)
    /\ evalOut.num_wrong = Cardinality(WrongPairs)
    /\ ScoredPairs # {} =>
          /\ evalOut.kind = "return"
          /\ evalOut.value = Frac(Cardinality(WrongPairs), Cardinality(ScoredPairs))

\* The same statement for held-out games in which no two scored players tie.
C3_HoldsWithoutScoredTies ==
  (evalPc = "order" /\ ~ScoredTie) =>
    /\ evalOut.num_predictions = Cardinality(ScoredPairs)
    /\ evalOut.num_missed = Cardinality(CoPairs \ ScoredPairs)
    /\ evalOut.num_wrong = Cardinality(WrongPairs)
    /\ ScoredPairs # {} =>
          /\ evalOut.kind = "return"
          /\ evalOut.value = Frac(Cardinality(WrongPairs), Cardinality(ScoredPairs))

\* The fixture of the claim: two players, a strict winner, equal ratings.
C3_EqualRatingsFixture ==
  (/\ evalPc = "order"
   /\ Len(heldout) = 1
   /\ Len(heldout[1]) = 2
   /\ heldout[1][1][2] # heldout[1][2][2]
   /\ Keys(heldout[1]) \subseteq DOMAIN ratings
   /\ \A p, q \in Keys(heldout[1]) : ratings[p] = ratings[q])
  => (evalOut.kind = "return" /\ evalOut.value = <<1, 1>>)

(***************************************************************************)
(* C4: ratings_order_error returns exactly 0.0 when every participant is   *)
(* rated, the order predicate is a strict total order on the participants  *)
(* (decisive on every pair), and it agrees with the finish order of every  *)
(* pair of co-participants of every held-out game.                         *)
(***************************************************************************)
TableMatchesOutcomes ==
  \A g \in 1..Len(heldout) :
    /\ Keys(heldout[g]) \subseteq DOMAIN ratings
    /\ \A p, q \in Keys(heldout[g]) :
          p # q => /\ ~Indecisive(p, q)
                   /\ pl_order(ratings[p], ratings[q])
                         <=> Get(heldout[g], p) < Get(heldout[g], q)

C4_PerfectTableHasZeroError ==
  (evalPc = "order" /\ TableMatchesOutcomes) =>
    (evalOut.kind = "return" /\ evalOut.value = <<0, 1>>)

\* A three-player game listed worst first, with a table that orders it right.
C4_Witness ==
  /\ evalPc = "order"
  /\ TableMatchesOutcomes
  /\ Len(heldout[1]) = 3
  /\ heldout[1][1][2] = 3
  /\ evalOut.num_predictions = 3

(***************************************************************************)
(* C5: ratings_rmse and ratings_order_error do not raise when participants *)
(* of the held-out games are missing from the rating table; they return a  *)
(* value computed over the pairs that could be scored.                     *)
(***************************************************************************)
SomeParticipantUnrated ==
  \E g \in 1..Len(heldout) : ~(Keys(heldout[g]) \subseteq DOMAIN ratings)

C5_EvaluatorNeverRaisesOnMissing ==
  (evalPc \in {"order", "rmse"} /\ SomeParticipantUnrated) => evalOut.kind = "return"

\* What the code does instead: it returns exactly when some pair was scored.
C5_RaisesExactlyWhenNothingScored ==
  evalPc \in {"order", "rmse"} =>
    (evalOut.kind = "raise" <=> ScoredPairs = {})

(***************************************************************************)
(* Floats of the estimators are modelled in fixed point: the integer x     *)
(* stands for x / SCALE, and a division truncates.                         *)
(***************************************************************************)
SCALE == 1000

\* a / b
FDiv(a, b) == (a * SCALE) \div b

\* 1 / x
Recip(x) == (SCALE * SCALE) \div x

\* The largest r with r * r <= n, by bisection on lo..hi.
RECURSIVE ISqrtIn(_, _, _)
ISqrtIn(n, lo, hi) ==
  IF lo >= hi THEN lo
  ELSE LET mid == (lo + hi + 1) \div 2
       IN  IF mid * mid <= n THEN ISqrtIn(n, mid, hi) ELSE ISqrtIn(n, lo, mid - 1)

ISqrt(n) == ISqrtIn(n, 0, Min2(n, 46340))

RECURSIVE SumSeq(_)
SumSeq(s) == IF Len(s) = 0 THEN 0 ELSE s[1] + SumSeq(Tail(s))

\* sum(f(x) for x in S) for a function f on the finite set S.
SumOver(f) ==
  LET keys == SetToSeq(DOMAIN f)
  IN  SumSeq([i \in 1..Len(keys) |-> f[keys[i]]])

(***************************************************************************)
(* pl_ranking.pl_python                                                    *)
(***************************************************************************)
\* The game results hold at most this many (player, rank) entries in all.
MaxPlEntries == 4

\* The model stops a run after this many iterations of the while loop.
MaxPlIter == 3

\* The tolerances of the model: 0, 0.5 and 10.
Tolerances == {0, SCALE \div 2, 10 * SCALE}

\* players = set(key for ranking in rankings for key in ranking.keys())
PlayersOf(rs) == UNION {Keys(rs[n]) : n \in 1..Len(rs)}

\* max(ranking.values())
MaxRankOf(ranking) ==
  CHOOSE m \in {ranking[i][2] : i \in 1..Len(ranking)} :
    \A i \in 1..Len(ranking) : ranking[i][2] <= m

\* ws[player]: the rankings in which the player finishes before the maximum.
WinCredit(rs, player) ==
  Cardinality({n \in 1..Len(rs) :
                 player \in Keys(rs[n]) /\ Get(rs[n], player) < MaxRankOf(rs[n])})

\* gammas = {player : 1.0 / len(players) for player in players}
InitialGammas(rs) ==
  [player \in PlayersOf(rs) |-> FDiv(SCALE, Cardinality(PlayersOf(rs)) * SCALE)]

\* sorted(ranking.values())[:-1]
Places(ranking) ==
  LET vals == [i \in 1..Len(ranking) |-> <<i, ranking[i][2]>>]
      srt == StableSort(vals, [p \in Range(vals) \X Range(vals) |-> p[1][2] < p[2][2]])
  IN  [i \in 1..(Len(ranking) - 1) |-> srt[i][2]]

\* sum(gammas[finisher] for finisher, finish in ranking.items() if finish >= place)
FinisherSum(ranking, g, place) ==
  SumSeq([i \in 1..Len(ranking) |->
            IF ranking[i][2] >= place THEN g[ranking[i][1]] ELSE 0])

\* The (ranking, index into Places) pairs whose term is not the constant 0 for
\* the player: ranking.get(player, -1) >= place.
TermsOf(rs, player) ==
  {t \in UNION {{n} \X (1..(Len(rs[n]) - 1)) : n \in 1..Len(rs)} :
     (IF player \in Keys(rs[t[1]]) THEN Get(rs[t[1]], player) ELSE -1)
        >= Places(rs[t[1]])[t[2]]}

\* Some 1 / sum(...) that the comprehension evaluates divides by zero.
PyDenomsRaise(rs, g) ==
  \E player \in PlayersOf(rs) : \E t \in TermsOf(rs, player) :
     FinisherSum(rs[t[1]], g, Places(rs[t[1]])[t[2]]) = 0

\* denoms, when no term raises.
PyDenoms(rs, g) ==
  [player \in PlayersOf(rs) |->
     LET ts == SetToSeq(TermsOf(rs, player))
     IN  SumSeq([k \in 1..Len(ts) |->
                   Recip(FinisherSum(rs[ts[k][1]], g, Places(rs[ts[k][1]])[ts[k][2]]))])]

\* math.sqrt(sum((gamma - _gammas[player]) ** 2 ...))
L2Distance(g, h) ==
  ISqrt(SumOver([player \in DOMAIN g |-> (g[player] - h[player]) * (g[player] - h[player])]))

\* The loop test with the comparison inverted.
PyLoopTestInverted(d, tol) == d < tol

\* while gdiff > tolerance
PyLoopTest(d, tol) == d > tol

InitPl ==
  /\ IdleStore
  /\ IdleEval
  /\ IdleWl
  /\ IdleCv
  /\ IdleMain
  /\ rankings \in GameLists(MaxPlEntries)
  /\ tolerance \in Tolerances
  /\ gammas = <<>>
  /\ prevGammas = <<>>
  /\ gdiff = 0
  /\ iteration = 0
  /\ plPc = "start"

\* pl_python up to the while loop.
PlPythonCall ==
  /\ plPc = "start"
  /\ gammas' = InitialGammas(rankings)
  /\ prevGammas' = [player \in PlayersOf(rankings) |-> 0]
  /\ gdiff' = 10 * SCALE
  /\ iteration' = 0
  /\ plPc' = "py_while"
  /\ UNCHANGED <<rankings, tolerance>>
  /\ UNCHANGED notPl

\* One iteration of the loop body of pl_python.
PlPythonIterate ==
  /\ plPc = "py_while"
  /\ PyLoopTest(gdiff, tolerance)
  /\ iteration < MaxPlIter
  /\ IF PyDenomsRaise(rankings, gammas)
        \/ \E player \in PlayersOf(rankings) : PyDenoms(rankings, gammas)[player] = 0
     THEN /\ plPc' = "py_raised"
          /\ UNCHANGED <<gammas, prevGammas, gdiff, iteration>>
     ELSE LET denoms == PyDenoms(rankings, gammas)
              new == [player \in PlayersOf(rankings) |->
                        FDiv(WinCredit(rankings, player) * SCALE, denoms[player])]
          IN  /\ prevGammas' = gammas
              /\ gammas' = new
              /\ gdiff' = L2Distance(new, gammas)
              /\ iteration' = iteration + 1
              /\ plPc' = "py_while"
  /\ UNCHANGED <<rankings, tolerance>>
  /\ UNCHANGED notPl

\* The loop test fails and pl_python returns gammas.
PlPythonReturn ==
  /\ plPc = "py_while"
  /\ ~PyLoopTest(gdiff, tolerance)
  /\ plPc' = "py_returned"
  /\ UNCHANGED <<rankings, tolerance, gammas, prevGammas, gdiff, iteration>>
  /\ UNCHANGED notPl

(***************************************************************************)
(* pl_ranking.pl_numpy.  A numpy float is a fixed-point number >= 0, inf   *)
(* or nan; division by zero yields inf or nan instead of raising.          *)
(***************************************************************************)
NpInf == -1

NpNan == -2

NpAdd(a, b) ==
  IF a = NpNan \/ b = NpNan THEN NpNan
  ELSE IF a = NpInf \/ b = NpInf THEN NpInf
  ELSE a + b

RECURSIVE NpSumSeq(_)
NpSumSeq(s) == IF Len(s) = 0 THEN 0 ELSE NpAdd(s[1], NpSumSeq(Tail(s)))

\* x > 0 (false for nan)
NpPositive(x) == x = NpInf \/ x > 0

\* 1 / x for x > 0
NpRecip(x) == IF x = NpInf THEN 0 ELSE Recip(x)

\* w / x for an integer w >= 0
NpDivCount(w, x) ==
  IF x = NpNan THEN NpNan
  ELSE IF x = NpInf THEN 0
  ELSE IF x = 0 THEN (IF w = 0 THEN NpNan ELSE NpInf)
  ELSE FDiv(w * SCALE, x)

\* P: the maximum of the finish column of a
MaxFinish(rs) ==
  CHOOSE m \in {MaxRankOf(rs[n]) : n \in 1..Len(rs)} :
    \A n \in 1..Len(rs) : MaxRankOf(rs[n]) <= m

\* f[finish - 1, contest - 1] = player: of the players of contest n that
\* share the finish i the last one in the order of ranking.items() is kept;
\* "-" is the 0 of an empty cell.
FCell(ranking, i) ==
  LET at == {k \in 1..Len(ranking) : ranking[k][2] = i}
  IN  IF at = {} THEN "-"
      ELSE ranking[CHOOSE k \in at : \A j \in at : j <= k][1]

\* pp = sum(f > 0): the cells of contest n that hold a player.
PlayersPerContest(rs, n) ==
  Cardinality({i \in 1..MaxFinish(rs) : FCell(rs[n], i) # "-"})

\* Column n of g after the choose, the reverse cumsum, the zeroing of row
\* pp - 1, the inversion of the positive cells and the cumsum.
GColumn(rs, g, n) ==
  LET P == MaxFinish(rs)
      chosen == [i \in 1..P |->
                   IF FCell(rs[n], i) # "-" THEN g[FCell(rs[n], i)] ELSE 0]
      revcum == [i \in 1..P |-> NpSumSeq(SubSeq(chosen, i, P))]
      zeroed == [i \in 1..P |->
                   IF i = PlayersPerContest(rs, n) THEN 0 ELSE revcum[i]]
      inverted == [i \in 1..P |->
                     IF NpPositive(zeroed[i]) THEN NpRecip(zeroed[i]) ELSE zeroed[i]]
  IN  [i \in 1..P |-> NpSumSeq(SubSeq(inverted, 1, i))]

\* numpy.sum(r2, axis=1): r2[player, contest] is g.T.flat[r - 1], the cell of
\* row finish - 1 of the contest's column, for a player of the contest.
NpDenoms(rs, g) ==
  [player \in PlayersOf(rs) |->
     NpSumSeq([n \in 1..Len(rs) |->
                 IF player \in Keys(rs[n])
                 THEN GColumn(rs, g, n)[Get(rs[n], player)]
                 ELSE 0])]

\* numpy.linalg.norm(gammas - _gammas)
NpNorm(g, h) ==
  IF \E player \in DOMAIN g :
        \/ g[player] = NpNan
        \/ h[player] = NpNan
        \/ (g[player] = NpInf /\ h[player] = NpInf)
  THEN NpNan
  ELSE IF \E player \in DOMAIN g : g[player] = NpInf \/ h[player] = NpInf
  THEN NpInf
  ELSE L2Distance(g, h)

\* while gdiff > tolerance (false for nan)
NpLoopTest(d, tol) == d = NpInf \/ (d # NpNan /\ d > tol)

\* pl_numpy up to the while loop.  The model calls it with two or more
\* contests: with one, gammas[f - 1].squeeze() drops the contest axis.
PlNumpyCall ==
  /\ plPc = "start"
  /\ Len(rankings) >= 2
  /\ gammas' = InitialGammas(rankings)
  /\ prevGammas' = [player \in PlayersOf(rankings) |-> 0]
  /\ gdiff' = SCALE
  /\ iteration' = 0
  /\ plPc' = "np_while"
  /\ UNCHANGED <<rankings, tolerance>>
  /\ UNCHANGED notPl

\* One iteration of the loop body of pl_numpy.
PlNumpyIterate ==
  /\ plPc = "np_while"
  /\ NpLoopTest(gdiff, tolerance)
  /\ iteration < MaxPlIter
  /\ LET denoms == NpDenoms(rankings, gammas)
         new == [player \in PlayersOf(rankings) |->
                   NpDivCount(WinCredit(rankings, player), denoms[player])]
     IN  /\ prevGammas' = gammas
         /\ gammas' = new
         /\ gdiff' = NpNorm(new, gammas)
         /\ iteration' = iteration + 1
  /\ UNCHANGED <<rankings, tolerance, plPc>>
  /\ UNCHANGED notPl

\* The loop test fails and pl_numpy returns the gammas.
PlNumpyReturn ==
  /\ plPc = "np_while"
  /\ ~NpLoopTest(gdiff, tolerance)
  /\ plPc' = "np_returned"
  /\ UNCHANGED <<rankings, tolerance, gammas, prevGammas, gdiff, iteration>>
  /\ UNCHANGED notPl

NextPl ==
  \/ PlPythonCall
  \/ PlPythonIterate
  \/ PlPythonReturn
  \/ PlNumpyCall
  \/ PlNumpyIterate
  \/ PlNumpyReturn

SpecPl == InitPl /\ [][NextPl]_vars

(***************************************************************************)
(* C6: pl_python does not raise, whatever the game set: every iteration's  *)
(* denominators and gamma updates are computed without an exception such   *)
(* as a division by zero.                                                  *)
(***************************************************************************)
C6_PlPythonNeverRaises == plPc # "py_raised"

\* Where the code does raise: some place that is not the last of sorted()
\* has only finishers whose gamma is 0, which needs an earlier iteration.
C6_RaisesOnlyAfterAnIteration ==
  plPc = "py_raised" =>
    /\ iteration >= 1
    /\ \E player \in PlayersOf(rankings) :
          gammas[player] = 0 /\ WinCredit(rankings, player) = 0

(***************************************************************************)
(* C7 as claimed: pl_python and pl_numpy return only after completing an   *)
(* iteration whose distance between the previous and the new gammas is     *)
(* below the tolerance, for every tolerance.                               *)
(***************************************************************************)
C7_ReturnsOnlyBelowTolerance ==
  plPc \in {"py_returned", "np_returned"} =>
    /\ iteration >= 1
    /\ gdiff >= 0
    /\ gdiff < tolerance

(***************************************************************************)
(* C7 as amended: pl_python and pl_numpy return only when the loop test    *)
(* gdiff > tolerance is false, where gdiff is the distance of the last     *)
(* completed iteration or, when no iteration ran, its initial value (10 in *)
(* pl_python, 1 in pl_numpy).  So a return has gdiff <= tolerance (equal   *)
(* included; in pl_numpy also a nan distance), and happens with no         *)
(* iteration at all exactly when the tolerance is at least the initial     *)
(* value.  No iteration count ends the loop.                               *)
(***************************************************************************)
\* The Euclidean distance of two finite gamma vectors, stated apart from the
\* estimator's own computation: the d with d^2 <= sum < (d + 1)^2.
IsDistance(d, g, h) ==
  LET sq == SumOver([player \in DOMAIN g |->
                       (g[player] - h[player]) * (g[player] - h[player])])
  IN  d >= 0 /\ d * d <= sq /\ sq < (d + 1) * (d + 1)

Finite(g) == \A player \in DOMAIN g : g[player] >= 0

C7_ReturnsOnlyWhenLoopTestFails ==
  /\ plPc = "py_returned" =>
       /\ gdiff <= tolerance
       /\ iteration = 0 <=> tolerance >= 10 * SCALE
       /\ iteration = 0 => gdiff = 10 * SCALE
       /\ iteration >= 1 => IsDistance(gdiff, gammas, prevGammas)
  /\ plPc = "np_returned" =>
       /\ gdiff = NpNan \/ (gdiff >= 0 /\ gdiff <= tolerance)
       /\ iteration = 0 <=> tolerance >= SCALE
       /\ iteration = 0 => gdiff = SCALE
       /\ (iteration >= 1 /\ Finite(gammas) /\ Finite(prevGammas))
             => IsDistance(gdiff, gammas, prevGammas)

\* pl_python returned after two iterations, the second with distance exactly
\* the tolerance.
C7_Witness ==
  /\ plPc = "py_returned"
  /\ iteration = 2
  /\ gdiff = tolerance

\* pl_numpy returned because the distance is nan.
C7_WitnessNan ==
  /\ plPc = "np_returned"
  /\ gdiff = NpNan

(***************************************************************************)
(* C8: in every iteration pl_numpy and pl_python compute the same          *)
(* denominator for every player, and so the same gamma update, for every   *)
(* set of games of two or more players.                                    *)
(***************************************************************************)
\* An iteration of either backend is about to run on finite gammas, and the
\* scalar backend computes its denominators without raising.
BothBackendsCompute ==
  /\ plPc \in {"py_while", "np_while"}
  /\ Len(rankings) >= 2
  /\ Finite(gammas)
  /\ ~PyDenomsRaise(rankings, gammas)

C8_BackendsAgree ==
  BothBackendsCompute =>
    \A player \in PlayersOf(rankings) :
       /\ NpDenoms(rankings, gammas)[player] = PyDenoms(rankings, gammas)[player]
       /\ NpDivCount(WinCredit(rankings, player), NpDenoms(rankings, gammas)[player])
            = NpDivCount(WinCredit(rankings, player), PyDenoms(rankings, gammas)[player])

\* The ranks of every game are 1..n with no rank shared.
UntiedContiguous ==
  \A n \in 1..Len(rankings) :
     {rankings[n][i][2] : i \in 1..Len(rankings[n])} = 1..Len(rankings[n])

\* The backends do agree on games whose ranks are 1..n without ties.
C8_AgreeOnUntiedContiguous ==
  (BothBackendsCompute /\ UntiedContiguous) =>
    \A player \in PlayersOf(rankings) :
       NpDenoms(rankings, gammas)[player] = PyDenoms(rankings, gammas)[player]

(***************************************************************************)
(* wl_ranking: wl_bt_ratings and wl_pl_ratings, in the fixed point of      *)
(* SCALE.  A Rating is the record [mu, sigma].                             *)
(***************************************************************************)
\* The three-player game results hold at most this many entries in all.
MaxWlEntries == 4

\* The number of calls of the updaters in one run.
MaxWlCalls == 2

MU == 25 * SCALE

SIGMA == MU \div 3

BETA == SIGMA \div 2

Rating(m, sg) == [mu |-> m, sigma |-> sg]

\* x + x^2/2 + x^3/6 + 1, for 0 <= x <= 1/2.
ExpSmall(x) ==
  SCALE + x + (x * x) \div (2 * SCALE) + (x * x * x) \div (6 * SCALE * SCALE)

\* math.exp(x): exp(x) = exp(x/2)^2 above 1/2, 1/exp(-x) below 0.  The
\* fixed point holds no value above exp(14): a larger x gives exp(14).
RECURSIVE Exp(_)
Exp(x) ==
  IF x < 0 THEN Recip(Exp(0 - x))
  ELSE IF 2 * x <= SCALE THEN ExpSmall(x)
  ELSE LET h == Exp(Min2(x, 14 * SCALE) \div 2)
       IN  h * (h \div SCALE) + (h * (h % SCALE)) \div SCALE

\* (r / 1) ** 3
Cube(r) == (((r * r) \div SCALE) * r) \div SCALE

\* x * (1 - x)
TimesComplement(x) == (x * (SCALE - x)) \div SCALE

\* last_ratings.get(p, first)
LastRatingsGet(last_ratings, p) ==
  IF p \in DOMAIN last_ratings THEN last_ratings[p] ELSE Rating(MU, SIGMA)

\* mu = {p: last_ratings.get(p, first).mu for p in players}
FirstMu(game_results, last_ratings) ==
  [p \in PlayersOf(game_results) |-> LastRatingsGet(last_ratings, p).mu]

\* sigma = {p: last_ratings.get(p, first).sigma for p in players}
FirstSigma(game_results, last_ratings) ==
  [p \in PlayersOf(game_results) |-> LastRatingsGet(last_ratings, p).sigma]

\* ciq = math.sqrt(sigma[player]**2 + sigma[opp]**2 + (2*BETA**2))
BtCiq(sg, player, opp) ==
  ISqrt(sg[player] * sg[player] + sg[opp] * sg[opp] + 2 * BETA * BETA)

\* piq = 1. / (1. + math.exp((mu[opp] - mu[player]) / ciq))
BtPiq(m, sg, player, opp) ==
  (SCALE * SCALE) \div
     (SCALE + Exp(FDiv(m[opp] - m[player], BtCiq(sg, player, opp))))

\* s: 1 when the opponent ranked worse, 0.5 on equal ranks, else 0.
BtScore(prank, orank) ==
  IF orank > prank THEN SCALE
  ELSE IF orank = prank THEN SCALE \div 2
  ELSE 0

\* omega[player] of wl_bt_ratings after the loop over the opponents.
BtOmega(game, m, sg, player) ==
  SumOver([opp \in Keys(game) \ {player} |->
     (((sg[player] * sg[player]) \div BtCiq(sg, player, opp))
        * (BtScore(Get(game, player), Get(game, opp)) - BtPiq(m, sg, player, opp)))
     \div SCALE])

\* delta[player] of wl_bt_ratings after the loop over the opponents, in the
\* fixed point of SCALE * SCALE.
BtDelta(game, m, sg, player) ==
  SumOver([opp \in Keys(game) \ {player} |->
     Cube(FDiv(sg[player], BtCiq(sg, player, opp)))
       * TimesComplement(BtPiq(m, sg, player, opp))])

\* c = math.sqrt(sum(sigma[p]**2 + BETA**2 for p in game))
PlC(game, sg) ==
  ISqrt(SumOver([p \in Keys(game) |-> sg[p] * sg[p] + BETA * BETA]))

\* Aq[r] of Aq = Counter(r for r in game.values())
Aq(game, r) == Cardinality({i \in 1..Len(game) : game[i][2] = r})

\* sumCq[q]
SumCq(game, m, c, q) ==
  SumOver([i \in {k \in Keys(game) : Get(game, k) >= Get(game, q)} |->
             Exp(FDiv(m[i], c))])

\* PiCq = math.exp(mu[player] / c) / sumCq[opp]
PiCq(game, m, c, player, opp) ==
  FDiv(Exp(FDiv(m[player], c)), SumCq(game, m, c, opp))

\* The opponents the inner loop of wl_pl_ratings does not skip.
PlOpps(game, player) ==
  {opp \in Keys(game) : ~(Get(game, opp) > Get(game, player))}

\* omega[player] of wl_pl_ratings after the inner loop.
PlOmega(game, m, sg, player) ==
  LET c == PlC(game, sg)
  IN  SumOver([opp \in PlOpps(game, player) |->
        (((IF player = opp THEN SCALE ELSE 0) - PiCq(game, m, c, player, opp))
           * ((sg[player] * sg[player]) \div (c * Aq(game, Get(game, opp)))))
        \div SCALE])

\* delta[player] of wl_pl_ratings after the inner loop, in the fixed point
\* of SCALE * SCALE.
PlDelta(game, m, sg, player) ==
  LET c == PlC(game, sg)
  IN  SumOver([opp \in PlOpps(game, player) |->
        (Cube(FDiv(sg[player], c)) \div Aq(game, Get(game, opp)))
          * TimesComplement(PiCq(game, m, c, player, opp))])

Omega(system, game, m, sg, player) ==
  IF system = "bt" THEN BtOmega(game, m, sg, player)
  ELSE PlOmega(game, m, sg, player)

Delta(system, game, m, sg, player) ==
  IF system = "bt" THEN BtDelta(game, m, sg, player)
  ELSE PlDelta(game, m, sg, player)

\* The factor without its floor.
ShrinkFactorNoFloor(delta) == ISqrt(Max2(SCALE * SCALE - delta, 0))

\* math.sqrt(max(1 - delta[player], 0.0001))
ShrinkFactor(delta) ==
  ISqrt(Max2(SCALE * SCALE - delta, (SCALE * SCALE) \div 10000))

\* Aq[r]: the number of players of the game with rank r.
RankCount(game, r) == Cardinality({i \in 1..Len(game) : game[i][2] = r})

\* Aq.most_common()[0][0]: the rank with the largest count, the one inserted
\* first among those with the largest count.
MostCommonRank(game) ==
  LET first == CHOOSE i \in 1..Len(game) :
                 /\ \A j \in 1..Len(game) :
                       RankCount(game, game[j][2]) <= RankCount(game, game[i][2])
                 /\ \A j \in 1..(i - 1) :
                       RankCount(game, game[j][2]) < RankCount(game, game[i][2])
  IN  game[first][2]

\* if Aq.most_common()[0][0] != 1: print("Found tied ranks")
FoundTiedRanks(game) == MostCommonRank(game) # 1

\* The tables when each player's omega and delta were applied as soon as they
\* are computed, from the i-th item of the game on.
RECURSIVE AppliedInPlace(_, _, _, _, _)
AppliedInPlace(system, game, m, sg, i) ==
  IF i > Len(game) THEN [m |-> m, sg |-> sg]
  ELSE LET player == game[i][1]
           m2 == [m EXCEPT ![player] = m[player] + Omega(system, game, m, sg, player)]
           sg2 == [sg EXCEPT ![player] =
                     (sg[player] * ShrinkFactor(Delta(system, game, m, sg, player)))
                       \div SCALE]
       IN  AppliedInPlace(system, game, m2, sg2, i + 1)

\* mu when no player's update waits for the end of the game.
MuAfterInPlace(system, game, m, sg) == AppliedInPlace(system, game, m, sg, 1).m

\* mu after `for player in game: mu[player] += omega[player]`
MuAfter(system, game, m, sg) ==
  [p \in DOMAIN m |->
     IF p \in Keys(game) THEN m[p] + Omega(system, game, m, sg, p) ELSE m[p]]

\* sigma after `for player in game: sigma[player] *= math.sqrt(...)`
SigmaAfter(system, game, m, sg) ==
  [p \in DOMAIN sg |->
     IF p \in Keys(game)
     THEN (sg[p] * ShrinkFactor(Delta(system, game, m, sg, p))) \div SCALE
     ELSE sg[p]]

\* {player: Rating(mu[player], sigma[player]) for player in players}
TableOf(m, sg) == [p \in DOMAIN m |-> Rating(m[p], sg[p])]

\* A call that wrote its table into last_ratings.
LastRatingsWritten(last_ratings, table) == table

\* The dict last_ratings when the call returns: the body only calls get().
LastRatingsAfter(last_ratings, table) == last_ratings

\* Two six-player games, one with ranks 1..6 and one with every rank tied.
WidePlayers == <<"A", "B", "C", "D", "E", "F">>

WideGames ==
  {[i \in 1..Len(WidePlayers) |-> <<WidePlayers[i], i>>],
   [i \in 1..Len(WidePlayers) |-> <<WidePlayers[i], 1>>]}

\* game_results: the lists of three-player games, and one or two wide games.
WlInputs ==
  GameLists(MaxWlEntries)
    \cup {<<w>> : w \in WideGames}
    \cup {<<w, v>> : w \in WideGames, v \in WideGames}

\* The tables a caller passes as last_ratings: one where A is rated with a
\* large sigma, one where A and B are rated apart with small sigmas.
WlPriors ==
  {[p \in {"A"} |-> Rating(MU, 40 * SCALE)],
   [p \in {"A", "B"} |->
      IF p = "A" THEN Rating(30 * SCALE, 5 * SCALE)
      ELSE Rating(20 * SCALE, 2 * SCALE)]}

\* The dict the running call reads as last_ratings.
LastRatings == IF wlPassed = "default" THEN wlDefault ELSE wlPrior

InitWl ==
  /\ IdleStore
  /\ IdleEval
  /\ IdlePl
  /\ IdleCv
  /\ IdleMain
  /\ wlGames \in WlInputs
  /\ wlPrior \in WlPriors
  /\ wlDefault = <<>>
  /\ wlFrozen = wlPrior
  /\ wlSystem = "none"
  /\ wlPassed = "none"
  /\ mu = <<>>
  /\ sigma = <<>>
  /\ gnum = 0
  /\ wlOut = <<>>
  /\ wlCalls = 0
  /\ wlTied = {}
  /\ wlPc = "start"

\* wl_bt_ratings(game_results[, last_ratings]) or wl_pl_ratings(...) up to
\* the loop over the games.
WlCall(system, passed) ==
  /\ wlPc \in {"start", "returned"}
  /\ wlCalls < MaxWlCalls
  /\ wlSystem' = system
  /\ wlPassed' = passed
  /\ LET last_ratings == IF passed = "default" THEN wlDefault ELSE wlPrior
     IN  /\ mu' = FirstMu(wlGames, last_ratings)
         /\ sigma' = FirstSigma(wlGames, last_ratings)
  /\ gnum' = 0
  /\ wlOut' = <<>>
  /\ wlCalls' = wlCalls + 1
  /\ wlTied' = {}
  /\ wlPc' = "games"
  /\ UNCHANGED <<wlGames, wlPrior, wlDefault, wlFrozen>>
  /\ UNCHANGED notWl

\* One pass of `for gnum, game in enumerate(game_results, start=1)`.
WlGame ==
  /\ wlPc = "games"
  /\ gnum < Len(wlGames)
  /\ LET game == wlGames[gnum + 1]
     IN  /\ mu' = MuAfter(wlSystem, game, mu, sigma)
         /\ sigma' = SigmaAfter(wlSystem, game, mu, sigma)
         /\ wlTied' = IF wlSystem = "pl" /\ FoundTiedRanks(game)
                      THEN wlTied \cup {gnum + 1}
                      ELSE wlTied
  /\ gnum' = gnum + 1
  /\ UNCHANGED <<wlGames, wlPrior, wlDefault, wlFrozen, wlSystem, wlPassed,
                 wlOut, wlCalls, wlPc>>
  /\ UNCHANGED notWl

\* The loop is over: return the table.
WlReturn ==
  /\ wlPc = "games"
  /\ gnum = Len(wlGames)
  /\ wlOut' = TableOf(mu, sigma)
  /\ wlPrior' = IF wlPassed = "prior"
                THEN LastRatingsAfter(wlPrior, TableOf(mu, sigma))
                ELSE wlPrior
  /\ wlDefault' = IF wlPassed = "default"
                  THEN LastRatingsAfter(wlDefault, TableOf(mu, sigma))
                  ELSE wlDefault
  /\ wlPc' = "returned"
  /\ UNCHANGED <<wlGames, wlFrozen, wlSystem, wlPassed, mu, sigma, gnum,
                 wlCalls, wlTied>>
  /\ UNCHANGED notWl

NextWl ==
  \/ \E system \in {"bt", "pl"}, passed \in {"prior", "default"} :
        WlCall(system, passed)
  \/ WlGame
  \/ WlReturn

SpecWl == InitWl /\ [][NextWl]_vars

\* mu and sigma of a call after its first n games, as a function of the
\* games and of the ratings it starts from.
RECURSIVE RateAfter(_, _, _, _)
RateAfter(system, game_results, n, last_ratings) ==
  IF n = 0
  THEN [m |-> FirstMu(game_results, last_ratings),
        sg |-> FirstSigma(game_results, last_ratings)]
  ELSE LET prev == RateAfter(system, game_results, n - 1, last_ratings)
       IN  [m |-> MuAfter(system, game_results[n], prev.m, prev.sg),
            sg |-> SigmaAfter(system, game_results[n], prev.m, prev.sg)]

\* The table the call returns.
WlRatings(system, game_results, last_ratings) ==
  LET last == RateAfter(system, game_results, Len(game_results), last_ratings)
  IN  TableOf(last.m, last.sg)

(***************************************************************************)
(* C9: in both WL updaters, after any sequence of processed games every    *)
(* player's sigma is strictly positive and is not larger than it was       *)
(* before the latest game: delta >= 0 and the floor keep the per-game      *)
(* factor sqrt(max(1 - delta, 0.0001)) in [0.01, 1].                       *)
(***************************************************************************)
\* The game the loop processes next.
NextGame == wlGames[gnum + 1]

FactorInRange ==
  (wlPc = "games" /\ gnum < Len(wlGames)) =>
    \A player \in Keys(NextGame) :
       LET delta == Delta(wlSystem, NextGame, mu, sigma, player)
           factor == ShrinkFactor(delta)
       IN  /\ delta >= 0
           /\ factor >= SCALE \div 100
           /\ factor <= SCALE

C9_SigmaPositiveNonIncreasing ==
  /\ [](\A player \in DOMAIN sigma : sigma[player] > 0)
  /\ []FactorInRange
  /\ [][gnum' = gnum + 1 =>
          \A player \in DOMAIN sigma :
             /\ sigma'[player] > 0
             /\ sigma'[player] <= sigma[player]
             /\ player \notin Keys(NextGame) => sigma'[player] = sigma[player]]_vars

\* Two games are processed, and the floor held A's factor at 0.01 in one.
C9_Witness ==
  /\ wlPc = "games"
  /\ wlPassed = "prior"
  /\ gnum = 2
  /\ "A" \in DOMAIN wlFrozen
  /\ "A" \in DOMAIN sigma
  /\ sigma["A"] > 0
  /\ sigma["A"] * 100 <= wlFrozen["A"].sigma

(***************************************************************************)
(* C10: wl_bt_ratings and wl_pl_ratings are deterministic functions of the *)
(* game sequence and the initial ratings: a call never modifies its        *)
(* last_ratings argument, the shared default dict included, so a call      *)
(* returns the same table whatever calls were made before it.              *)
(***************************************************************************)
C10_DeterministicAndReadOnly ==
  /\ wlPrior = wlFrozen
  /\ wlDefault = <<>>
  /\ wlPc = "returned" =>
       wlOut = WlRatings(wlSystem, wlGames,
                         IF wlPassed = "default" THEN <<>> ELSE wlFrozen)

\* A second call returned, each of the two calls having read the dict the
\* other one read.
C10_Witness ==
  /\ wlPc = "returned"
  /\ wlCalls = 2
  /\ Len(wlGames) = 2
  /\ wlOut # TableOf(FirstMu(wlGames, LastRatings), FirstSigma(wlGames, LastRatings))

(***************************************************************************)
(* cross_validate: check_predictions and the fold loop of main             *)
(***************************************************************************)
\* game_parts holds at most this many folds.
MaxFolds == 3

\* The folds hold at most this many games in all.
MaxCvGames == 3

\* The gameIDs of the folds: "2", "10" and "7".
CvGameIDs == {<<2>>, <<1, 0>>, <<7>>}

\* The users of a record, held as the dict the comprehensions of lines 107
\* and 111 build from them: "username (userID)" -> int(rank).
CvUsers ==
  {<<<<"A", 1>>, <<"B", 2>>>>,
   <<<<"B", 1>>, <<"A", 2>>>>,
   <<<<"A", 1>>, <<"C", 2>>>>}

CvRecords == {[gameID |-> id, users |-> u] : id \in CvGameIDs, u \in CvUsers}

\* load_parts: a fold is what utility.load_games returns for one file.
CvFolds == {load_games(gs) : gs \in SeqsUpTo(CvRecords, MaxCvGames)}

\* The lists of k folds that hold n games or fewer in all.
RECURSIVE PartLists(_, _)
PartLists(k, n) ==
  IF k = 0 THEN {<<>>}
  ELSE UNION {{<<f>> \o rest : rest \in PartLists(k - 1, n - Len(f))} :
                f \in {c \in CvFolds : Len(c) <= n}}

\* [{...: int(u['rank']) for u in g['users']} for g in gs]
ResultsOf(gs) == [i \in 1..Len(gs) |-> gs[i].users]

\* [g for p in game_parts if p != test for g in p]
RECURSIVE OtherGames(_, _)
OtherGames(ps, test) ==
  IF Len(ps) = 0 THEN <<>>
  ELSE (IF ps[1] # test THEN ps[1] ELSE <<>>) \o OtherGames(Tail(ps), test)

\* train after train.sort(key=lambda x: x['gameID'])
TrainOf(ps, test) ==
  LET t == OtherGames(ps, test)
  IN  StableSort(t, [q \in Range(t) \X Range(t) |-> StrKeyLess(q[1], q[2])])

\* The registered systems, in the order of the list systems.
Systems ==
  <<"plackett-luce", "trueskill-default", "trueskill-t0", "weng-lin-bt",
    "weng-lin-pl">>

\* funcs['order'] of a system, held as its name.
OrderOf(system) ==
  IF system = "plackett-luce" THEN "rank_order" ELSE "ms_rank_order"

\* pl_python raises in its second iteration when, with gamma 0 for every
\* player without win credit, some 1 / sum(...) divides by zero.
PlRateRaises(train_results) ==
  PyDenomsRaise(train_results,
                [player \in PlayersOf(train_results) |->
                   IF WinCredit(train_results, player) = 0 THEN 0 ELSE SCALE])

\* What funcs['rate'](train_results) raises.  ts_ratings and the Weng-Lin
\* updaters read gnum after a loop that never ran.
RateRaises(system, train_results) ==
  IF system = "plackett-luce"
  THEN (IF PlRateRaises(train_results) THEN "ZeroDivisionError" ELSE "none")
  ELSE (IF Len(train_results) = 0 THEN "UnboundLocalError" ELSE "none")

\* The error rate of a table the model does not compute (the gammas pl_python
\* converges to at tolerance 1e-09, the ratings of the trueskill library):
\* the term of the system and of the two lists it is a function of.
ErrorTerm(system, train_results, test_results) ==
  [system |-> system, train |-> train_results, test |-> test_results]

\* check_predictions(test_results, funcs['rate'](train_results), funcs['order'])
FoldError(system, train_results, test_results) ==
  IF RateRaises(system, train_results) # "none"
  THEN [kind |-> "raise", exc |-> RateRaises(system, train_results)]
  ELSE IF system \in {"weng-lin-bt", "weng-lin-pl"}
  THEN check_predictions(test_results,
          WlRatings(IF system = "weng-lin-bt" THEN "bt" ELSE "pl",
                    train_results, <<>>),
          OrderOf(system))
  ELSE IF PredictionsRaise(test_results, PlayersOf(train_results)) # "none"
  THEN [kind |-> "raise",
        exc |-> PredictionsRaise(test_results, PlayersOf(train_results))]
  ELSE [kind |-> "return",
        value |-> ErrorTerm(system, train_results, test_results)]

\* error_rates[system] = [value]
RecordedAlone(rates, value) == <<value>>

\* error_rates[system].append(value)
Recorded(rates, value) == Append(rates, value)

\* The systems the loop of lines 119-123 prints a line for: statistics.stdev
\* raises StatisticsError on fewer than two error rates.
RECURSIVE ReportedOf(_, _)
ReportedOf(systems, rates) ==
  IF Len(systems) = 0 \/ Len(rates[systems[1]]) < 2 THEN <<>>
  ELSE <<systems[1]>> \o ReportedOf(Tail(systems), rates)

InitCv ==
  /\ IdleStore
  /\ IdleEval
  /\ IdlePl
  /\ IdleWl
  /\ IdleMain
  /\ game_parts \in UNION {PartLists(k, MaxCvGames) : k \in 1..MaxFolds}
  /\ pnum = 0
  /\ sysnum = 0
  /\ train = <<>>
  /\ error_rates = [system \in Range(Systems) |-> <<>>]
  /\ reported = <<>>
  /\ cvPc = "folds"

\* Lines 106-112: the next fold becomes the test set.
CvFold ==
  /\ cvPc = "folds"
  /\ pnum < Len(game_parts)
  /\ pnum' = pnum + 1
  /\ train' = TrainOf(game_parts, game_parts[pnum + 1])
  /\ sysnum' = 0
  /\ cvPc' = "systems"
  /\ UNCHANGED <<game_parts, error_rates, reported>>
  /\ UNCHANGED notCv

\* Lines 113-118: one pass of the loop over the systems.
CvSystem ==
  /\ cvPc = "systems"
  /\ sysnum < Len(Systems)
  /\ LET system == Systems[sysnum + 1]
         e == FoldError(system, ResultsOf(train), ResultsOf(game_parts[pnum]))
     IN  IF e.kind = "raise"
         THEN /\ cvPc' = "raised"
              /\ UNCHANGED <<sysnum, error_rates>>
         ELSE /\ error_rates' =
                   [error_rates EXCEPT
                      ![system] = Recorded(error_rates[system], e.value)]
              /\ sysnum' = sysnum + 1
              /\ cvPc' = IF sysnum + 1 = Len(Systems) THEN "folds" ELSE "systems"
  /\ UNCHANGED <<game_parts, pnum, train, reported>>
  /\ UNCHANGED notCv

\* Lines 119-123: the mean and the stdev of every system.
CvReport ==
  /\ cvPc = "folds"
  /\ pnum = Len(game_parts)
  /\ reported' = ReportedOf(Systems, error_rates)
  /\ cvPc' = IF ReportedOf(Systems, error_rates) = Systems THEN "done"
             ELSE "raised"
  /\ UNCHANGED <<game_parts, pnum, sysnum, train, error_rates>>
  /\ UNCHANGED notCv

NextCv == CvFold \/ CvSystem \/ CvReport

SpecCv == InitCv /\ [][NextCv]_vars

(***************************************************************************)
(* C11: for every fold i used as the test set, the training set handed to  *)
(* the rating systems is exactly the concatenation of all folds j # i      *)
(* (every game of every other fold, as often as it occurs there, and no    *)
(* more), sorted by gameID, for any list of loaded folds.                  *)
(***************************************************************************)
\* How often the record r occurs in the list gs.
Occurrences(gs, r) == Cardinality({k \in 1..Len(gs) : gs[k] = r})

\* How often r occurs in the folds whose index is in js.
OccurrencesIn(js, r) ==
  SumOver([j \in js |-> Occurrences(game_parts[j], r)])

C11_TrainIsAllOtherFoldsSorted ==
  cvPc = "systems" =>
    /\ \A r \in CvRecords :
          Occurrences(train, r) =
            OccurrencesIn((1..Len(game_parts)) \ {pnum}, r)
    /\ \A k \in 1..(Len(train) - 1) :
          IntOf(train[k].gameID) <= IntOf(train[k + 1].gameID)

\* What the code hands over: the games of the folds that differ from the
\* test fold as lists, in ascending order of the gameID strings.
C11_TrainIsUnequalFoldsInStringOrder ==
  cvPc = "systems" =>
    /\ \A r \in CvRecords :
          Occurrences(train, r) =
            OccurrencesIn({j \in 1..Len(game_parts) :
                             game_parts[j] # game_parts[pnum]}, r)
    /\ \A k \in 1..(Len(train) - 1) :
          ~StrLess(train[k + 1].gameID, train[k].gameID)

(***************************************************************************)
(* C12: the fold loop records exactly one error rate per (fold, system)    *)
(* pair, so that after the loop over K folds every registered system has   *)
(* exactly K recorded error rates, and exactly one mean/stdev pair is      *)
(* produced per registered system.                                         *)
(***************************************************************************)
\* The number of (fold, system) pairs done for the k-th system.
PairsDone(k) ==
  IF cvPc = "systems" THEN (pnum - 1) + (IF k <= sysnum THEN 1 ELSE 0)
  ELSE pnum

MaxMainEntries == 3

\* The key 0 of the anchor player; no real player has it.
AnchorKey == "0"

\* max_user = None; the names of the players are non-empty strings.
NoUser == ""

\* pc.setdefault(user, [1, 1]) with no flag cleared after it.
PcEntered(pc, user, idx) ==
  IF user \in Keys(pc) THEN pc ELSE Append(pc, <<user, <<1, 1>>>>)

\* pc.setdefault(user, [1, 1])[idx] = 0, idx counted from 1.
PcClear(pc, user, idx) ==
  IF user \in Keys(pc)
  THEN [k \in 1..Len(pc) |->
          IF pc[k][1] = user THEN <<user, [pc[k][2] EXCEPT ![idx] = 0]>>
          ELSE pc[k]]
  ELSE Append(pc, <<user, [<<1, 1>> EXCEPT ![idx] = 0]>>)

\* The body of the loop over game.items() for one (user, rank).
CheckUser(st, user, rank) ==
  LET pc1 == IF rank > 1 THEN PcClear(st.pc, user, 2) ELSE st.pc
  IN  IF rank > st.max_rank
      THEN [pc |-> IF st.max_user # NoUser THEN PcClear(pc1, st.max_user, 1)
                   ELSE pc1,
            max_rank |-> rank,
            max_user |-> user]
      ELSE IF rank < st.max_rank
      THEN [st EXCEPT !.pc = PcClear(pc1, user, 1)]
      ELSE [st EXCEPT !.pc = pc1]

\* The loop over game.items() from the i-th item on.
RECURSIVE CheckItems(_, _, _)
CheckItems(st, game, i) ==
  IF i > Len(game) THEN st.pc
  ELSE LET nxt == CheckUser(st, game[i][1], game[i][2])
       IN  CheckItems(nxt, game, i + 1)

\* pc after the first n games.
RECURSIVE CheckGamesPc(_, _)
CheckGamesPc(gs, n) ==
  IF n = 0 THEN <<>>
  ELSE LET prev == CheckGamesPc(gs, n - 1)
       IN  CheckItems([pc |-> prev, max_rank |-> 0, max_user |-> NoUser],
                      gs[n], 1)

\* The users of pc whose flags satisfy the test, in the order of pc.
RECURSIVE PcSelect(_, _)
PcSelect(pc, flags) ==
  IF Len(pc) = 0 THEN <<>>
  ELSE IF pc[1][2] \in flags THEN <<pc[1][1]>> \o PcSelect(Tail(pc), flags)
  ELSE PcSelect(Tail(pc), flags)

\* check_games(games): (winners, losers), (None, None) or the exception.
check_games(gs) ==
  LET pc == CheckGamesPc(gs, Len(gs))
      missing_wl == SumSeq([k \in 1..Len(pc) |-> pc[k][2][1] + pc[k][2][2]])
  IN  IF missing_wl > 0
      THEN IF \E k \in 1..Len(pc) : pc[k][2] = <<1, 1>>
           THEN [kind |-> "raise"]
           ELSE [kind |-> "lists",
                 winners |-> PcSelect(pc, {<<0, 1>>}),
                 losers |-> PcSelect(pc, {<<1, 0>>})]
      ELSE [kind |-> "nones"]

\* fake_games with the game the anchor player loses left out.
RECURSIVE FakeWinsOnly(_)
FakeWinsOnly(ps) ==
  IF Len(ps) = 0 THEN <<>>
  ELSE << <<<<AnchorKey, 1>>, <<ps[1], 2>>>> >> \o FakeWinsOnly(Tail(ps))

\* fake_games for the players taken in the order ps.
RECURSIVE FakeGames(_)
FakeGames(ps) ==
  IF Len(ps) = 0 THEN <<>>
  ELSE << <<<<AnchorKey, 1>>, <<ps[1], 2>>>>,
          <<<<AnchorKey, 2>>, <<ps[1], 1>>>> >> \o FakeGames(Tail(ps))

\* The orders in which a set can be iterated.
IterationOrders(S) ==
  {ps \in [1..Cardinality(S) -> S] : Range(ps) = S}

\* The values of config.tolerance in the model: 0 (for the default 1e-9) and 0.5.
MainTolerances == {0, SCALE \div 2}

\* del ratings[0]
Removed(rt, key) == [k \in (DOMAIN rt) \ {key} |-> rt[k]]

InitMain ==
  /\ IdleStore
  /\ IdleEval
  /\ IdlePl
  /\ IdleWl
  /\ IdleCv
  /\ mainGames \in GameLists(MaxMainEntries)
  /\ anchor_player \in BOOLEAN
  /\ checked = [kind |-> "none"]
  /\ mainPlayers = {}
  /\ mainRatings = <<>>
  /\ mainPc = "start"

\* winners, losers = check_games(game_results)
MainCheckGames ==
  /\ mainPc = "start"
  /\ checked' = check_games(mainGames)
  /\ mainPc' = IF check_games(mainGames).kind = "raise" THEN "raised"
               ELSE "checked"
  /\ UNCHANGED <<mainGames, anchor_player, mainPlayers, mainRatings>>
  /\ UNCHANGED plVars
  /\ UNCHANGED notMain

\* The players are collected, the fake games are appended when the anchor
\* player is asked for, and plackett_luce is called.
MainAnchor ==
  /\ mainPc = "checked"
  /\ mainPlayers' = PlayersOf(mainGames)
  /\ \E ps \in IterationOrders(PlayersOf(mainGames)) :
        rankings' = IF anchor_player THEN mainGames \o FakeGames(ps)
                    ELSE mainGames
  /\ \E tol \in MainTolerances : tolerance' = tol
  /\ plPc' = "start"
  /\ mainPc' = "rating"
  /\ UNCHANGED <<mainGames, anchor_player, checked, mainRatings>>
  /\ UNCHANGED <<gammas, prevGammas, gdiff, iteration>>
  /\ UNCHANGED notMain

\* plackett_luce returned; the anchor player is removed from the ratings.
MainRemove ==
  /\ mainPc = "rating"
  /\ plPc \in {"py_returned", "np_returned"}
  /\ mainRatings' = IF anchor_player THEN Removed(gammas, AnchorKey)
                    ELSE gammas
  /\ mainPc' = "done"
  /\ UNCHANGED <<mainGames, anchor_player, checked, mainPlayers>>
  /\ UNCHANGED plVars
  /\ UNCHANGED notMain

\* The exception of plackett_luce leaves main.
MainRaise ==
  /\ mainPc = "rating"
  /\ plPc = "py_raised"
  /\ mainPc' = "raised"
  /\ UNCHANGED <<mainGames, anchor_player, checked, mainPlayers, mainRatings>>
  /\ UNCHANGED plVars
  /\ UNCHANGED notMain

NextMain ==
  \/ MainCheckGames
  \/ MainAnchor
  \/ PlPythonCall
  \/ PlPythonIterate
  \/ PlPythonReturn
  \/ PlNumpyCall
  \/ PlNumpyIterate
  \/ PlNumpyReturn
  \/ MainRemove
  \/ MainRaise

SpecMain == InitMain /\ [][NextMain]_vars

(***************************************************************************)
(* C13: with the anchor player, the injected games give the synthetic      *)
(* player exactly one two-player win and one two-player loss against       *)
(* every real player, every player of the estimated games has a win        *)
(* credit and a loss, the beats graph over the real players and the anchor *)
(* is strongly connected, and after the removal the keys of the rating     *)
(* table are exactly the real players.                                     *)
(***************************************************************************)
\* How often the game g occurs among the estimated games.
TimesPlayed(g) == Cardinality({n \in 1..Len(rankings) : rankings[n] = g})

\* The player finishes behind somebody in some estimated game.
HasLoss(rs, player) ==
  \E n \in 1..Len(rs) :
     /\ player \in Keys(rs[n])
     /\ \E other \in Keys(rs[n]) : Get(rs[n], other) < Get(rs[n], player)

\* The pairs (a, b) where a finishes before b in some game.
Beats(rs) ==
  {e \in PlayersOf(rs) \X PlayersOf(rs) :
     \E n \in 1..Len(rs) :
        /\ e[1] \in Keys(rs[n])
        /\ e[2] \in Keys(rs[n])
        /\ Get(rs[n], e[1]) < Get(rs[n], e[2])}

\* The pairs joined by a path of one or two edges of R.
Squared(R) ==
  LET edges == R
  IN  edges \cup {<<p[1][1], p[2][2]>> :
                    p \in {q \in edges \X edges : q[1][2] = q[2][1]}}

\* Every player reaches every other one along the edges of Beats.
StronglyConnected(rs) ==
  LET once == Squared(Beats(rs))
      reach == Squared(once)
  IN  \A a \in PlayersOf(rs), b \in PlayersOf(rs) :
         a # b => <<a, b>> \in reach

C13_AnchorConnectsEveryPlayer ==
  /\ (anchor_player /\ mainPc \in {"rating", "done", "raised"}) =>
       /\ \A p \in mainPlayers :
             /\ TimesPlayed(<<<<AnchorKey, 1>>, <<p, 2>>>>) = 1
             /\ TimesPlayed(<<<<AnchorKey, 2>>, <<p, 1>>>>) = 1
       /\ Cardinality({n \in 1..Len(rankings) : AnchorKey \in Keys(rankings[n])})
            = 2 * Cardinality(mainPlayers)
       /\ \A q \in PlayersOf(rankings) :
             WinCredit(rankings, q) >= 1 /\ HasLoss(rankings, q)
       /\ StronglyConnected(rankings)
  /\ (anchor_player /\ mainPc = "done") =>
       DOMAIN mainRatings = PlayersOf(mainGames)

\* The anchor player was added to games in which some of three real players
\* has no win, and removed after the estimate.
C13_Witness ==
  /\ anchor_player
  /\ mainPc = "done"
  /\ Cardinality(PlayersOf(mainGames)) = 3
  /\ \E p \in PlayersOf(mainGames) : WinCredit(mainGames, p) = 0
  /\ AnchorKey \in DOMAIN gammas
  /\ AnchorKey \notin DOMAIN mainRatings

(***************************************************************************)
(* C16: check_games reports a player as having no win exactly when the     *)
(* player's win credit is 0, and as having no loss exactly when the player *)
(* is never ranked worse than 1; the result does not depend on the order   *)
(* in which a game record lists its players.                               *)
(***************************************************************************)
\* The players reported with "has no win".
ReportedNoWin(out) == IF out.kind = "lists" THEN Range(out.losers) ELSE {}

\* The players reported with "has no loss".
ReportedNoLoss(out) == IF out.kind = "lists" THEN Range(out.winners) ELSE {}

\* The game lists that differ from gs in the order of the items of the
\* records only.
Relisted(gs) ==
  {hs \in [1..Len(gs) -> UNION {Shuffles(gs[n]) : n \in 1..Len(gs)}] :
     \A n \in 1..Len(gs) : hs[n] \in Shuffles(gs[n])}

C16_CheckGamesClassifies ==
  mainPc # "start" =>
    /\ \A p \in PlayersOf(mainGames) :
          /\ p \in ReportedNoWin(checked) <=> WinCredit(mainGames, p) = 0
          /\ p \in ReportedNoLoss(checked) <=>
               \A n \in 1..Len(mainGames) :
                  p \in Keys(mainGames[n]) => Get(mainGames[n], p) <= 1
    /\ \A hs \in Relisted(mainGames) :
          /\ ReportedNoWin(check_games(hs)) = ReportedNoWin(checked)
          /\ ReportedNoLoss(check_games(hs)) = ReportedNoLoss(checked)

(***************************************************************************)
(* C14: in each iteration of pl_python the denominator of player p is the  *)
(* sum, over every game p played and over every distinct rank value of     *)
(* that game except the worst one and not worse than p's own, of           *)
(* 1 / (sum of the current gammas of the participants with rank >= that    *)
(* value): a rank value shared by tied players contributes once and the    *)
(* worst rank value never contributes.                                     *)
(***************************************************************************)
\* The distinct rank values of the game except the worst that are not worse
\* than the player's own.
DistinctPlaces(ranking, player) ==
  {v \in {ranking[i][2] : i \in 1..Len(ranking)} :
     v < MaxRankOf(ranking) /\ v <= Get(ranking, player)}

\* The denominators summed over the distinct rank values.
DistinctDenoms(rs, g) ==
  [player \in PlayersOf(rs) |->
     SumSeq([n \in 1..Len(rs) |->
               IF player \in Keys(rs[n])
               THEN SumOver([v \in DistinctPlaces(rs[n], player) |->
                               Recip(FinisherSum(rs[n], g, v))])
               ELSE 0])]

\* An iteration of pl_python was completed from gammas that are all positive.
IteratedFromPositive ==
  /\ plPc \in {"py_while", "py_returned"}
  /\ iteration >= 1
  /\ \A player \in DOMAIN prevGammas : prevGammas[player] > 0

C14_DenominatorOverDistinctRanks ==
  IteratedFromPositive =>
    \A player \in PlayersOf(rankings) :
       gammas[player] =
         FDiv(WinCredit(rankings, player) * SCALE,
              PyDenoms(rankings, prevGammas)[player])
       /\ PyDenoms(rankings, prevGammas)[player] =
            DistinctDenoms(rankings, prevGammas)[player]

\* No two players of a game share a rank.
Untied(rs) ==
  \A n \in 1..Len(rs) :
     Cardinality({rs[n][i][2] : i \in 1..Len(rs[n])}) = Len(rs[n])

\* In games without ties the places of the code are the distinct rank values.
C14_UntiedDenominatorOverDistinctRanks ==
  (IteratedFromPositive /\ Untied(rankings)) =>
    \A player \in PlayersOf(rankings) :
       PyDenoms(rankings, prevGammas)[player] =
         DistinctDenoms(rankings, prevGammas)[player]

(***************************************************************************)
(* C15: every gamma of the table of the PL estimator is strictly positive, *)
(* after every iteration and on return, for every player of the input      *)
(* games.                                                                  *)
(***************************************************************************)
\* The estimator completed an iteration or returned.
GammasProduced ==
  \/ plPc \in {"py_returned", "np_returned"}
  \/ plPc \in {"py_while", "np_while"} /\ iteration >= 1

C15_GammasStrictlyPositive ==
  GammasProduced =>
    /\ DOMAIN gammas = PlayersOf(rankings)
    /\ \A player \in PlayersOf(rankings) : gammas[player] > 0

\* What pl_python produces: after an iteration the gamma of a player is 0
\* exactly when the player has no win credit.
C15_PythonGammaZeroIffNoWinCredit ==
  (plPc \in {"py_while", "py_returned"} /\ iteration >= 1) =>
    \A player \in PlayersOf(rankings) :
       /\ gammas[player] >= 0
       /\ gammas[player] = 0 <=> WinCredit(rankings, player) = 0

(***************************************************************************)
(* C17: the WL updaters apply a game atomically.  Every participant's      *)
(* omega and delta for a game are computed from the mu and sigma held      *)
(* before that game, mu and sigma change only when all of them are         *)
(* accumulated, no update within a game reads an already updated value,    *)
(* and the games are applied strictly in the order of the sequence.        *)
(***************************************************************************)
\* The step applies the game after the gnum games applied so far, with every
\* omega and delta a function of the tables before the step.
GameStepReadsOldTables ==
  /\ gnum' = gnum + 1
  /\ wlGames' = wlGames
  /\ DOMAIN mu' = DOMAIN mu
  /\ DOMAIN sigma' = DOMAIN sigma
  /\ \A player \in DOMAIN mu :
        IF player \in Keys(NextGame)
        THEN /\ mu'[player] =
                  mu[player] + Omega(wlSystem, NextGame, mu, sigma, player)
             /\ sigma'[player] =
                  (sigma[player]
                     * ShrinkFactor(Delta(wlSystem, NextGame, mu, sigma, player)))
                    \div SCALE
        ELSE mu'[player] = mu[player] /\ sigma'[player] = sigma[player]

SharesNonFirstRank(game) ==
  \E i \in 1..Len(game) : game[i][2] # 1 /\ RankCount(game, game[i][2]) >= 2

C18_FlaggedIffNonFirstRankShared ==
  (wlSystem = "pl" /\ wlPc \in {"games", "returned"}) =>
    \A n \in 1..gnum : n \in wlTied <=> SharesNonFirstRank(wlGames[n])

\* What the code flags: the games whose most common rank, the first listed
\* among the most common ones, is not 1; the tables are those of the update.
C18_FlaggedIffMostCommonRankNotOne ==
  /\ (wlSystem = "pl" /\ wlPc \in {"games", "returned"}) =>
       \A n \in 1..gnum : n \in wlTied <=> MostCommonRank(wlGames[n]) # 1
  /\ (wlSystem = "bt" /\ wlPc \in {"games", "returned"}) => wlTied = {}

(***************************************************************************)
(* C19: the per-fold score of the cross-validator, check_predictions with  *)
(* order(ratings, a, b), equals ratings_order_error with the corresponding *)
(* predicate on the same rating table and test fold, for every table and   *)
(* fold; a participant of the test fold without a rating is skipped as an  *)
(* unscored pair and causes no error.                                      *)
(***************************************************************************)
\* The two results are the same value or the same exception.
SameOutcome(x, y) ==
  /\ x.kind = y.kind
  /\ x.kind = "return" => x.value = y.value
  /\ x.kind = "raise" => x.exc = y.exc

\* ratings_order_error with pl_order, the predicate rank_order applies to the
\* two looked-up ratings.
OrderErrorOfFold ==
  LET out == ratings_order_error(heldout, ratings, "pl_order", NoSubjects)
  IN  IF out.kind = "raise"
      THEN [kind |-> "raise", exc |-> "ZeroDivisionError"]
      ELSE out

C19_CheckPredictionsIsOrderError ==
  evalPc = "check" =>
    /\ SameOutcome(evalOut, OrderErrorOfFold)
    /\ SomeParticipantUnrated => evalOut.kind # "raise" \/ evalOut.exc # "KeyError"

\* The two agree when every participant of the test fold is rated.
C19_EqualWhenEveryParticipantRated ==
  (evalPc = "check" /\ ~SomeParticipantUnrated) =>
    SameOutcome(evalOut, OrderErrorOfFold)

(***************************************************************************)
(* C20: ratings_order_error and ratings_rmse (and check_predictions)       *)
(* depend only on the set of (player, rank) pairs of each held-out game:   *)
(* permuting the order in which a game record lists its players, ties      *)
(* included, leaves the returned error unchanged.                          *)
(***************************************************************************)
\* The result of the function the caller ran, on the games gs.
EvalOf(gs) ==
  IF evalPc = "order"
  THEN ratings_order_error(gs, ratings, "pl_order", NoSubjects)
  ELSE IF evalPc = "rmse"
  THEN ratings_rmse(gs, ratings, "pl_winp", NoSubjects)
  ELSE check_predictions(gs, ratings, "rank_order")

C20_ErrorIgnoresListingOrder ==
  evalPc \in {"order", "rmse", "check"} =>
    \A hs \in Relisted(heldout) : EvalOf(hs) = evalOut

\* No two players of a held-out game share a rank.
C20_UntiedErrorIgnoresListingOrder ==
  (evalPc \in {"order", "rmse", "check"} /\ Untied(heldout)) =>
    \A hs \in Relisted(heldout) : EvalOf(hs) = evalOut

(***************************************************************************)
(* check_games on its own, called with lists of one or two games.          *)
(***************************************************************************)
\* The game results of this call hold at most this many (player, rank)
\* entries.
MaxCheckEntries == 4

InitCheck ==
  /\ IdleStore
  /\ IdleEval
  /\ IdlePl
  /\ IdleWl
  /\ IdleCv
  /\ mainGames \in GameLists(MaxCheckEntries)
  /\ anchor_player = FALSE
  /\ checked = [kind |-> "none"]
  /\ mainPlayers = {}
  /\ mainRatings = <<>>
  /\ mainPc = "start"

NextCheck == MainCheckGames

SpecCheck == InitCheck /\ [][NextCheck]_vars

(***************************************************************************)
(* C21: check_games never raises.  For every game set, every player        *)
(* entered in its bookkeeping table has at least one of the two flags      *)
(* (missing win, missing loss) cleared, so the branch raising "Player with *)
(* neither win or loss" is not reached, and the function returns either    *)
(* (None, None) or a (winners, losers) pair of disjoint lists.             *)
(***************************************************************************)
\* pc after the first n - 1 games and the first i items of the n-th game.
PcDuring(gs, n, i) ==
  LET prev == CheckGamesPc(gs, n - 1)
  IN  CheckItems([pc |-> prev, max_rank |-> 0, max_user |-> NoUser],
                 SubSeq(gs[n], 1, i), 1)

\* No entry of pc has both flags set.
SomeFlagCleared(pc) == \A k \in 1..Len(pc) : pc[k][2] # <<1, 1>>

\* No player is listed twice in the list.
NoRepeats(s) == \A i, j \in 1..Len(s) : s[i] = s[j] => i = j

C21_CheckGamesNeverRaises ==
  /\ \A n \in 1..Len(mainGames) : \A i \in 0..Len(mainGames[n]) :
        SomeFlagCleared(PcDuring(mainGames, n, i))
  /\ mainPc # "start" =>
       /\ checked.kind \in {"nones", "lists"}
       /\ checked.kind = "lists" =>
            /\ Range(checked.winners) \cap Range(checked.losers) = {}
            /\ NoRepeats(checked.winners)
            /\ NoRepeats(checked.losers)
            /\ Range(checked.winners) \cup Range(checked.losers)
                 \subseteq PlayersOf(mainGames)

\* check_games returned an undefeated player and a player without a win
\* from two games, with a third player who has both a win and a loss.
C21_Witness ==
  /\ mainPc = "checked"
  /\ Len(mainGames) = 2
  /\ checked.kind = "lists"
  /\ checked.winners # <<>>
  /\ checked.losers # <<>>
  /\ \E k \in 1..Len(CheckGamesPc(mainGames, 2)) :
        CheckGamesPc(mainGames, 2)[k][2] = <<0, 0>>

=============================================================================
